---------------------------- MODULE Spec2Model ----------------------------
(***************************************************************************)
(* The Hacker News -> Bluesky bot (src/bot.ts) as it is run by the         *)
(* scheduled workflow (src/unnamed/part_000): a run checks out the         *)
(* repository, executes main() on the checked-out last-processed.json and, *)
(* if main exited 0, commits the file back.                                *)
(*                                                                         *)
(* Time is counted in units of config.maxStoryAgeHours, so the age limit   *)
(* maxAgeMs is one unit.  A feed item's id is abstracted to the outcome    *)
(* extractStoryId can draw from it, a date to the timestamp Date parses.   *)
(***************************************************************************)
EXTENDS Integers, Sequences, FiniteSets, TLC

\* ------------------------------------------------------------------ bounds
MaxId == 3
MaxTime == 2
MaxFeed == 2
MaxRuns == 3

\* ------------------------------------------------------- program constants
\* retryWithBackoff(fetchRSSFeed, 3, ...) and retryWithBackoff(post, 3, ...)
maxAttempts == 3
\* config.maxStoryAgeHours * 60 * 60 * 1000, in the model's unit of time
maxAgeMs == 1

\* item.id values: undefined, a URL without a numeric id parameter (or no URL
\* at all), or ".../item?id=n" written as n >= 1.
UndefinedItemId == -2
NoStoryItemId == -1
\* extractStoryId's null
Null == 0
\* item.date_published values: absent, a string Date cannot parse, or the
\* timestamp t >= 0.
AbsentDate == -2
UnparsableDate == -1
\* getTime() of an Invalid Date
NaN == -1

Runners == 1..2
SerialRunners == {1}
Ids == 1..MaxId
Times == 0..MaxTime

RawItemIds == {UndefinedItemId, NoStoryItemId} \cup Ids
RawDates == {AbsentDate, UnparsableDate} \cup Times
RawItems == [id : RawItemIds, date_published : RawDates]
Feeds == UNION {[1..n -> RawItems] : n \in 0..MaxFeed}

\* The content of last-processed.json: no file, text that is not JSON, the
\* JSON value null, JSON without a lastStoryId, or {"lastStoryId": n}.
FileKinds == {"missing", "unparsable", "null", "nofield", "ok"}
File(k, n) == [kind |-> k, lastStoryId |-> n]
Files == {File(k, 0) : k \in FileKinds \ {"ok"}} \cup {File("ok", n) : n \in 0..MaxId}

VARIABLES
    repoFile,    \* last-processed.json as committed in the repository
    clock,       \* the wall clock
    published,   \* id -> number of successful posts to Bluesky
    runsStarted, \* number of workflow runs started so far
    run,         \* per runner: the run in progress
    prev,        \* what the last finished run decided
    feed         \* the feed's content, where it is held fixed across runs

vars == <<repoFile, clock, published, runsStarted, run, prev, feed>>

\* ------------------------------------------------------------ pure parts
extractStoryId(itemId) ==
    IF itemId = UndefinedItemId THEN Null
    ELSE IF itemId = NoStoryItemId THEN Null
    ELSE itemId

\* new Date(item.date_published || item.date_modified || Date.now()).getTime()
ParseDate(date, t) ==
    IF date = AbsentDate THEN t
    ELSE IF date = UnparsableDate THEN NaN
    ELSE date

\* Array.prototype.sort is stable: a story goes after the stories whose id
\* is not larger.
RECURSIVE Insert(_, _)
Insert(s, sorted) ==
    IF sorted = <<>> THEN <<s>>
    ELSE IF s.id - Head(sorted).id < 0 THEN <<s>> \o sorted
    ELSE <<Head(sorted)>> \o Insert(s, Tail(sorted))

RECURSIVE SortByIdFrom(_, _)
SortByIdFrom(stories, acc) ==
    IF stories = <<>> THEN acc
    ELSE SortByIdFrom(Tail(stories), Insert(Head(stories), acc))

\* Mutant: the stories stay in the order of the feed.
SortById_FeedOrder(stories) == stories

SortById(stories) == SortByIdFrom(stories, <<>>)

RECURSIVE ParseItems(_, _)
ParseItems(items, t) ==
    IF items = <<>> THEN <<>>
    ELSE LET item == Head(items)
             id == extractStoryId(item.id)
             rest == ParseItems(Tail(items), t)
         IN  IF id = Null THEN rest
             ELSE <<[id |-> id, publishedAt |-> ParseDate(item.date_published, t)]>> \o rest

fetchRSSFeed(items, t) == SortById(ParseItems(items, t))

\* loadState: JSON.parse of the file, {lastStoryId: 0} when that throws
loadState(file) ==
    IF file.kind \in {"missing", "unparsable"} THEN File("ok", 0) ELSE file

\* Mutant: the story at the cursor counts as new.
IsNew_AtOrAbove(story, state) ==
    state.kind = "ok" /\ story.id >= state.lastStoryId

\* Mutant: novelty decided by inequality with the cursor.
IsNew_Differs(story, state) ==
    state.kind = "ok" /\ story.id # state.lastStoryId

\* story.id > state.lastStoryId; a comparison with undefined is false
IsNew(story, state) ==
    state.kind = "ok" /\ story.id > state.lastStoryId

NewStories(stories, state) == SelectSeq(stories, LAMBDA s : IsNew(s, state))

\* Mutant: the age is taken as a distance, so a date ahead of the clock by
\* more than the limit counts as too old.
TooOld_AbsoluteAge(story, t) ==
    /\ story.publishedAt # NaN
    /\ \/ t - story.publishedAt > maxAgeMs
       \/ story.publishedAt - t > maxAgeMs

\* Mutant: a story exactly at the age limit counts as too old.
TooOld_AtLimit(story, t) ==
    story.publishedAt # NaN /\ t - story.publishedAt >= maxAgeMs

\* ageMs > maxAgeMs; a comparison with NaN is false
TooOld(story, t) ==
    story.publishedAt # NaN /\ t - story.publishedAt > maxAgeMs

FreshStories(newStories, t) == SelectSeq(newStories, LAMBDA s : ~TooOld(s, t))

\* story.publishedAt.toISOString() throws RangeError on an Invalid Date
LogThrows(newStories) ==
    \E i \in 1..Len(newStories) : newStories[i].publishedAt = NaN

RECURSIVE MathMax(_)
MathMax(ns) ==
    IF Cardinality(ns) = 1 THEN CHOOSE n \in ns : TRUE
    ELSE LET n == CHOOSE x \in ns : TRUE
             m == MathMax(ns \ {n})
         IN  IF n > m THEN n ELSE m

\* Mutant: the cursor advances to the oldest new story.
LatestId_Oldest(newStories) == newStories[1].id

LatestId(newStories) == MathMax({newStories[i].id : i \in 1..Len(newStories)})

\* Mutant: the newest fresh story is the one posted.
StoryToPost_Newest(freshStories) == freshStories[Len(freshStories)]

StoryToPost(freshStories) == freshStories[1]


\* What main decides on the fetched `stories` with the loaded `state` at time
\* t: the branch taken, the id of storyToPost, and the lastStoryId it saves
\* when the run completes with the post done.
Selection(stories, state, t) ==
    LET newStories == NewStories(stories, state)
        freshStories == FreshStories(newStories, t)
    IN  IF newStories = <<>>
        THEN [decision |-> "NoOp", id |-> Null, lastStoryId |-> state.lastStoryId]
        ELSE IF LogThrows(newStories)
        THEN [decision |-> "throws", id |-> Null, lastStoryId |-> state.lastStoryId]
        ELSE IF freshStories = <<>>
        THEN [decision |-> "AdvanceOnly", id |-> Null,
              lastStoryId |-> LatestId(newStories)]
        ELSE [decision |-> "PostAndAdvance", id |-> StoryToPost(freshStories).id,
              lastStoryId |-> StoryToPost(freshStories).id]

\* ------------------------------------ the variant printed in README.md
\* Its age filter has no log line that formats the date, so a story with an
\* Invalid Date passes it: ageMs is NaN and NaN > maxAgeMs is false.
readmeFreshStories(newStories, t) ==
    SelectSeq(newStories, LAMBDA s : ~(s.publishedAt # NaN /\ t - s.publishedAt > maxAgeMs))

\* main of the variant, dry-run off, once the feed has been fetched: the
\* branch taken, the id it attempts to post, whether it calls saveState and
\* with which lastStoryId, and its exit code, the post succeeding or failing
\* on every attempt.
readmeMain(stories, state, t, postSucceeds) ==
    LET newStories == SelectSeq(stories, LAMBDA s :
                                   state.kind = "ok" /\ s.id > state.lastStoryId)
        freshStories == readmeFreshStories(newStories, t)
    IN  IF newStories = <<>>
        THEN [decision |-> "NoOp", id |-> Null, saved |-> FALSE,
              lastStoryId |-> state.lastStoryId, exitCode |-> 0]
        ELSE IF freshStories = <<>>
        THEN [decision |-> "AdvanceOnly", id |-> Null, saved |-> TRUE,
              lastStoryId |-> MathMax({newStories[i].id : i \in 1..Len(newStories)}),
              exitCode |-> 0]
        ELSE IF postSucceeds
        THEN [decision |-> "PostAndAdvance", id |-> freshStories[1].id, saved |-> TRUE,
              lastStoryId |-> freshStories[1].id, exitCode |-> 0]
        ELSE [decision |-> "PostAndAdvance", id |-> freshStories[1].id, saved |-> FALSE,
              lastStoryId |-> state.lastStoryId, exitCode |-> 1]

\* ------------------------------------------------------------ the state
NoStory == [id |-> Null, publishedAt |-> NaN]

\* A runner with no run in progress.  loaded, decision, failedAt, postCalls,
\* posted and saves record what the run has done so far.  attempt, sleeps
\* and lastError are those of the retryWithBackoff call under way (an error
\* is named by the attempt that raised it, 0 for none), thrown is the error
\* retryWithBackoff threw.
IdleRun ==
    [pc |-> "idle", dryRun |-> FALSE, headFile |-> File("missing", 0),
     workFile |-> File("missing", 0), state |-> File("ok", 0),
     loaded |-> File("ok", 0), attempt |-> 0, stories |-> <<>>, now |-> 0,
     storyToPost |-> NoStory, exitCode |-> 0, decision |-> "none",
     failedAt |-> "none", postCalls |-> 0, posted |-> {}, saves |-> 0,
     sleeps |-> 0, lastError |-> 0, thrown |-> 0]

\* What is kept of a finished run: its mode, the file it checked out, what it
\* decided, where it failed and the story it chose.
Finished(rec) ==
    [dryRun |-> rec.dryRun, headFile |-> rec.headFile, decision |-> rec.decision,
     failedAt |-> rec.failedAt, id |-> rec.storyToPost.id]

NoPrev == Finished(IdleRun)

Init ==
    /\ repoFile \in Files
    /\ clock = 0
    /\ published = [i \in Ids |-> 0]
    /\ runsStarted = 0
    /\ run = [r \in Runners |-> IdleRun]
    /\ prev = NoPrev
    /\ feed = <<>>

InitSameFeed ==
    /\ repoFile \in Files
    /\ clock = 0
    /\ published = [i \in Ids |-> 0]
    /\ runsStarted = 0
    /\ run = [r \in Runners |-> IdleRun]
    /\ prev = NoPrev
    /\ feed \in Feeds

\* saveState: writeFileSync(filepath, JSON.stringify(state, null, 2))
saveState(state) == File("ok", state.lastStoryId)

\* process.exit(code), or main returning (code 0)
Exit(rec, code) == [rec EXCEPT !.pc = "exited", !.exitCode = code]

\* --------------------------------------------------- the workflow's steps
\* actions/checkout, setup and the start of "node bot.ts last-processed.json";
\* DRY_RUN comes from the environment of the run.
Checkout(r) ==
    /\ run[r].pc = "idle"
    /\ runsStarted < MaxRuns
    /\ \E d \in BOOLEAN :
         run' = [run EXCEPT ![r] = [IdleRun EXCEPT !.pc = "checkedOut",
                                                   !.dryRun = d,
                                                   !.headFile = repoFile,
                                                   !.workFile = repoFile]]
    /\ runsStarted' = runsStarted + 1
    /\ UNCHANGED <<repoFile, clock, published, prev, feed>>

\* main up to its first await: loadState, then the log line that reads
\* state.lastStoryId (a TypeError when the file held null), then the first
\* fetch attempt is under way.
MainStart(r) ==
    /\ run[r].pc = "checkedOut"
    /\ LET state == loadState(run[r].workFile)
           rec == [run[r] EXCEPT !.state = state, !.loaded = state]
       IN  run' = [run EXCEPT ![r] =
                     IF state.kind = "null"
                     THEN Exit([rec EXCEPT !.failedAt = "load"], 1)
                     ELSE [rec EXCEPT !.pc = "fetching", !.attempt = 1]]
    /\ UNCHANGED <<repoFile, clock, published, runsStarted, prev, feed>>

\* Mutant: the loop allows one attempt more than maxAttempts.
RetryLater_OneMore(r) ==
    /\ run[r].pc \in {"fetching", "posting"}
    /\ run[r].attempt <= maxAttempts
    /\ run' = [run EXCEPT ![r] =
                 [@ EXCEPT !.lastError = run[r].attempt,
                           !.sleeps = @ + 1,
                           !.attempt = @ + 1,
                           !.postCalls = IF run[r].pc = "posting" THEN @ + 1 ELSE @]]
    /\ UNCHANGED <<repoFile, clock, published, runsStarted, prev, feed>>

\* retryWithBackoff: a failed attempt that is not the last keeps its error,
\* sleeps and goes on to the next attempt
RetryLater(r) ==
    /\ run[r].pc \in {"fetching", "posting"}
    /\ run[r].attempt < maxAttempts
    /\ run' = [run EXCEPT ![r] =
                 [@ EXCEPT !.lastError = run[r].attempt,
                           !.sleeps = @ + 1,
                           !.attempt = @ + 1,
                           !.postCalls = IF run[r].pc = "posting" THEN @ + 1 ELSE @]]
    /\ UNCHANGED <<repoFile, clock, published, runsStarted, prev, feed>>

\* Mutant: when the post has failed for good, the cursor moves past the story.
RetriesExhausted_SkipStory(r) ==
    /\ run[r].pc \in {"fetching", "posting"}
    /\ run[r].attempt = maxAttempts
    /\ LET state == [run[r].state EXCEPT !.lastStoryId = run[r].storyToPost.id]
       IN  run' = [run EXCEPT ![r] =
                     IF run[r].pc = "fetching"
                     THEN Exit([@ EXCEPT !.failedAt = "fetch",
                                         !.lastError = run[r].attempt,
                                         !.thrown = run[r].attempt], 1)
                     ELSE Exit([@ EXCEPT !.failedAt = "post",
                                         !.lastError = run[r].attempt,
                                         !.thrown = run[r].attempt,
                                         !.state = state,
                                         !.workFile = saveState(state),
                                         !.saves = @ + 1], 0)]
    /\ UNCHANGED <<repoFile, clock, published, runsStarted, prev, feed>>

\* Mutant: the error is logged and the process ends normally.
RetriesExhausted_ExitZero(r) ==
    /\ run[r].pc \in {"fetching", "posting"}
    /\ run[r].attempt = maxAttempts
    /\ run' = [run EXCEPT ![r] =
                 Exit([@ EXCEPT !.failedAt =
                                   IF run[r].pc = "fetching" THEN "fetch" ELSE "post",
                                !.lastError = run[r].attempt,
                                !.thrown = run[r].attempt], 0)]
    /\ UNCHANGED <<repoFile, clock, published, runsStarted, prev, feed>>

\* retryWithBackoff: the last attempt failed; no sleep, lastError is thrown
\* and reaches main's catch
RetriesExhausted(r) ==
    /\ run[r].pc \in {"fetching", "posting"}
    /\ run[r].attempt = maxAttempts
    /\ run' = [run EXCEPT ![r] =
                 Exit([@ EXCEPT !.failedAt =
                                   IF run[r].pc = "fetching" THEN "fetch" ELSE "post",
                                !.lastError = run[r].attempt,
                                !.thrown = run[r].attempt], 1)]
    /\ UNCHANGED <<repoFile, clock, published, runsStarted, prev, feed>>

\* ------------------------------------------- main after a successful fetch
\* What fetchRSSFeed can return at time t, over every feed content.
FetchResults == [t \in Times |-> {fetchRSSFeed(items, t) : items \in Feeds}]

\* What it returns at time t while the feed holds `items`.
FetchResultsOf(items) == [t \in Times |-> {fetchRSSFeed(items, t)}]

\* The run record once fetchRSSFeed has returned `stories` at time t.
Fetched(r, stories, t) == [run[r] EXCEPT !.stories = stories, !.now = t]

\* newStories.length === 0: return
NoNewStories(r, results) ==
    /\ run[r].pc = "fetching"
    /\ \E t \in clock..MaxTime : \E stories \in results[t] :
         /\ NewStories(stories, run[r].state) = <<>>
         /\ run' = [run EXCEPT ![r] =
                      Exit([Fetched(r, stories, t) EXCEPT !.decision = "NoOp"], 0)]
         /\ clock' = t
    /\ UNCHANGED <<repoFile, published, runsStarted, prev, feed>>

\* Mutant: main's catch logs the error and lets the process end normally.
AgeLogThrows_ExitZero(r, results) ==
    /\ run[r].pc = "fetching"
    /\ \E t \in clock..MaxTime : \E stories \in results[t] :
         LET newStories == NewStories(stories, run[r].state)
         IN  /\ newStories # <<>>
             /\ LogThrows(newStories)
             /\ run' = [run EXCEPT ![r] =
                          Exit([Fetched(r, stories, t) EXCEPT !.failedAt = "filter"], 0)]
             /\ clock' = t
    /\ UNCHANGED <<repoFile, published, runsStarted, prev, feed>>

\* the age filter's log line throws on a new story with an Invalid Date
AgeLogThrows(r, results) ==
    /\ run[r].pc = "fetching"
    /\ \E t \in clock..MaxTime : \E stories \in results[t] :
         LET newStories == NewStories(stories, run[r].state)
         IN  /\ newStories # <<>>
             /\ LogThrows(newStories)
             /\ run' = [run EXCEPT ![r] =
                          Exit([Fetched(r, stories, t) EXCEPT !.failedAt = "filter"], 1)]
             /\ clock' = t
    /\ UNCHANGED <<repoFile, published, runsStarted, prev, feed>>

\* Mutant: a dry run that finds only old stories leaves the state unsaved.
AllTooOld_DryRunKeepsState(r, results) ==
    /\ run[r].pc = "fetching"
    /\ \E t \in clock..MaxTime : \E stories \in results[t] :
         LET newStories == NewStories(stories, run[r].state)
             state == [run[r].state EXCEPT !.lastStoryId = LatestId(newStories)]
         IN  /\ newStories # <<>>
             /\ ~LogThrows(newStories)
             /\ FreshStories(newStories, t) = <<>>
             /\ run' = [run EXCEPT ![r] =
                          IF run[r].dryRun
                          THEN Exit([Fetched(r, stories, t) EXCEPT
                                       !.decision = "AdvanceOnly"], 0)
                          ELSE Exit([Fetched(r, stories, t) EXCEPT
                                       !.decision = "AdvanceOnly",
                                       !.state = state,
                                       !.workFile = saveState(state),
                                       !.saves = @ + 1], 0)]
             /\ clock' = t
    /\ UNCHANGED <<repoFile, published, runsStarted, prev, feed>>

\* freshStories.length === 0: advance to the latest id, save, return
AllTooOld(r, results) ==
    /\ run[r].pc = "fetching"
    /\ \E t \in clock..MaxTime : \E stories \in results[t] :
         LET newStories == NewStories(stories, run[r].state)
             state == [run[r].state EXCEPT !.lastStoryId = LatestId(newStories)]
         IN  /\ newStories # <<>>
             /\ ~LogThrows(newStories)
             /\ FreshStories(newStories, t) = <<>>
             /\ run' = [run EXCEPT ![r] =
                          Exit([Fetched(r, stories, t) EXCEPT
                                  !.decision = "AdvanceOnly",
                                  !.state = state,
                                  !.workFile = saveState(state),
                                  !.saves = @ + 1], 0)]
             /\ clock' = t
    /\ UNCHANGED <<repoFile, published, runsStarted, prev, feed>>

\* Mutant: the dry run skips the post and still saves the cursor.
DryRun_SavesState(r, results) ==
    /\ run[r].pc = "fetching"
    /\ run[r].dryRun
    /\ \E t \in clock..MaxTime : \E stories \in results[t] :
         LET newStories == NewStories(stories, run[r].state)
             freshStories == FreshStories(newStories, t)
             state == [run[r].state EXCEPT
                         !.lastStoryId = StoryToPost(freshStories).id]
         IN  /\ newStories # <<>>
             /\ ~LogThrows(newStories)
             /\ freshStories # <<>>
             /\ run' = [run EXCEPT ![r] =
                          Exit([Fetched(r, stories, t) EXCEPT
                                  !.decision = "PostAndAdvance",
                                  !.storyToPost = StoryToPost(freshStories),
                                  !.state = state,
                                  !.workFile = saveState(state),
                                  !.saves = @ + 1], 0)]
             /\ clock' = t
    /\ UNCHANGED <<repoFile, published, runsStarted, prev, feed>>

\* config.dryRun: log what would be posted, state not updated
DryRun(r, results) ==
    /\ run[r].pc = "fetching"
    /\ run[r].dryRun
    /\ \E t \in clock..MaxTime : \E stories \in results[t] :
         LET newStories == NewStories(stories, run[r].state)
             freshStories == FreshStories(newStories, t)
         IN  /\ newStories # <<>>
             /\ ~LogThrows(newStories)
             /\ freshStories # <<>>
             /\ run' = [run EXCEPT ![r] =
                          Exit([Fetched(r, stories, t) EXCEPT
                                  !.decision = "PostAndAdvance",
                                  !.storyToPost = StoryToPost(freshStories)], 0)]
             /\ clock' = t
    /\ UNCHANGED <<repoFile, published, runsStarted, prev, feed>>

\* Mutant: the cursor is saved when the story is chosen, before the post.
BeginPost_SaveFirst(r, results) ==
    /\ run[r].pc = "fetching"
    /\ ~run[r].dryRun
    /\ \E t \in clock..MaxTime : \E stories \in results[t] :
         LET newStories == NewStories(stories, run[r].state)
             freshStories == FreshStories(newStories, t)
             state == [run[r].state EXCEPT
                         !.lastStoryId = StoryToPost(freshStories).id]
         IN  /\ newStories # <<>>
             /\ ~LogThrows(newStories)
             /\ freshStories # <<>>
             /\ run' = [run EXCEPT ![r] =
                          [Fetched(r, stories, t) EXCEPT
                             !.decision = "PostAndAdvance",
                             !.storyToPost = StoryToPost(freshStories),
                             !.state = state,
                             !.workFile = saveState(state),
                             !.saves = @ + 1,
                             !.pc = "posting",
                             !.attempt = 1,
                             !.sleeps = 0,
                             !.lastError = 0,
                             !.postCalls = 1]]
             /\ clock' = t
    /\ UNCHANGED <<repoFile, published, runsStarted, prev, feed>>

\* otherwise the first attempt to post storyToPost is under way
BeginPost(r, results) ==
    /\ run[r].pc = "fetching"
    /\ ~run[r].dryRun
    /\ \E t \in clock..MaxTime : \E stories \in results[t] :
         LET newStories == NewStories(stories, run[r].state)
             freshStories == FreshStories(newStories, t)
         IN  /\ newStories # <<>>
             /\ ~LogThrows(newStories)
             /\ freshStories # <<>>
             /\ run' = [run EXCEPT ![r] =
                          [Fetched(r, stories, t) EXCEPT
                             !.decision = "PostAndAdvance",
                             !.storyToPost = StoryToPost(freshStories),
                             !.pc = "posting",
                             !.attempt = 1,
                             !.sleeps = 0,
                             !.lastError = 0,
                             !.postCalls = 1]]
             /\ clock' = t
    /\ UNCHANGED <<repoFile, published, runsStarted, prev, feed>>

\* Mutant: the story is posted and the cursor is not saved.
PostOk_NoSave(r) ==
    /\ run[r].pc = "posting"
    /\ LET id == run[r].storyToPost.id
       IN  /\ published' = [published EXCEPT ![id] = @ + 1]
           /\ run' = [run EXCEPT ![r] = Exit([@ EXCEPT !.posted = @ \cup {id}], 0)]
    /\ UNCHANGED <<repoFile, clock, runsStarted, prev, feed>>

\* Mutant: after a post the run goes on to the next fresh story (a
\* POSTS_PER_RUN above one).
PostOk_PostsPerRun(r) ==
    /\ run[r].pc = "posting"
    /\ LET id == run[r].storyToPost.id
           state == [run[r].state EXCEPT !.lastStoryId = id]
           rest == FreshStories(NewStories(run[r].stories, state), run[r].now)
           rec == [run[r] EXCEPT !.posted = @ \cup {id},
                                 !.state = state,
                                 !.workFile = saveState(state),
                                 !.saves = @ + 1]
       IN  /\ published' = [published EXCEPT ![id] = @ + 1]
           /\ run' = [run EXCEPT ![r] =
                        IF rest = <<>> THEN Exit(rec, 0)
                        ELSE [rec EXCEPT !.storyToPost = rest[1], !.attempt = 1,
                                         !.sleeps = 0, !.lastError = 0,
                                         !.postCalls = @ + 1]]
    /\ UNCHANGED <<repoFile, clock, runsStarted, prev, feed>>

\* Mutant: the post goes through only while the repository still holds the
\* file the run checked out.
PostOk_CompareAndSet(r) ==
    /\ run[r].pc = "posting"
    /\ repoFile = run[r].headFile
    /\ LET id == run[r].storyToPost.id
           state == [run[r].state EXCEPT !.lastStoryId = id]
       IN  /\ published' = [published EXCEPT ![id] = @ + 1]
           /\ run' = [run EXCEPT ![r] =
                        Exit([@ EXCEPT !.posted = @ \cup {id},
                                       !.state = state,
                                       !.workFile = saveState(state),
                                       !.saves = @ + 1], 0)]
    /\ UNCHANGED <<repoFile, clock, runsStarted, prev, feed>>

\* postToBluesky returned: state.lastStoryId = storyToPost.id; saveState
PostOk(r) ==
    /\ run[r].pc = "posting"
    /\ LET id == run[r].storyToPost.id
           state == [run[r].state EXCEPT !.lastStoryId = id]
       IN  /\ published' = [published EXCEPT ![id] = @ + 1]
           /\ run' = [run EXCEPT ![r] =
                        Exit([@ EXCEPT !.posted = @ \cup {id},
                                       !.state = state,
                                       !.workFile = saveState(state),
                                       !.saves = @ + 1], 0)]
    /\ UNCHANGED <<repoFile, clock, runsStarted, prev, feed>>

\* "Commit state changes" (if: success()): git add; nothing to commit when
\* the file is as checked out; else commit and push, which the remote
\* rejects when it has moved since the checkout.  git add of a file that
\* does not exist fails the step.
CommitState(r) ==
    /\ run[r].pc = "exited"
    /\ run[r].exitCode = 0
    /\ repoFile' =
         IF /\ run[r].workFile.kind # "missing"
            /\ run[r].workFile # run[r].headFile
            /\ repoFile = run[r].headFile
         THEN run[r].workFile
         ELSE repoFile
    /\ prev' = Finished(run[r])
    /\ run' = [run EXCEPT ![r] = IdleRun]
    /\ UNCHANGED <<clock, published, runsStarted, feed>>

\* the bot step failed: the commit step is skipped, the checkout is dropped
JobFails(r) ==
    /\ run[r].pc = "exited"
    /\ run[r].exitCode = 1
    /\ prev' = Finished(run[r])
    /\ run' = [run EXCEPT ![r] = IdleRun]
    /\ UNCHANGED <<repoFile, clock, published, runsStarted, feed>>

\* ------------------------------------------------------- specifications
\* One run of runner r takes a step; the feed answers from `results`.
Step(r, results) ==
    \/ Checkout(r)
    \/ MainStart(r)
    \/ RetryLater(r)
    \/ RetriesExhausted(r)
    \/ NoNewStories(r, results)
    \/ AgeLogThrows(r, results)
    \/ AllTooOld(r, results)
    \/ DryRun(r, results)
    \/ BeginPost(r, results)
    \/ PostOk(r)
    \/ CommitState(r)
    \/ JobFails(r)

\* Runs one after the other, each fetching whatever the feed then holds.
Next == \E r \in SerialRunners : Step(r, FetchResults)

Spec == Init /\ [][Next]_vars

\* Runs one after the other while the feed keeps returning the same items.
NextSameFeed ==
    \E r \in SerialRunners :
        \/ Checkout(r)
        \/ MainStart(r)
        \/ RetryLater(r)
        \/ RetriesExhausted(r)
        \/ NoNewStories(r, FetchResultsOf(feed))
        \/ AgeLogThrows(r, FetchResultsOf(feed))
        \/ AllTooOld(r, FetchResultsOf(feed))
        \/ DryRun(r, FetchResultsOf(feed))
        \/ BeginPost(r, FetchResultsOf(feed))
        \/ PostOk(r)
        \/ CommitState(r)
        \/ JobFails(r)

SpecSameFeed == InitSameFeed /\ [][NextSameFeed]_vars

\* ---------------------------------------------- runs scheduled for ever
\* The feed while it only gains stories: complete items with a story id and a
\* date, each staying in the feed once it has entered it.
LiveItems == [id : Ids, date_published : Times]

InitLive ==
    /\ repoFile = File("ok", 0)
    /\ clock = 0
    /\ published = [i \in Ids |-> 0]
    /\ runsStarted = 0
    /\ run = [r \in Runners |-> IdleRun]
    /\ prev = NoPrev
    /\ feed = <<>>

\* A story enters the feed (it has reached the feed's points threshold).
FeedGains ==
    /\ Len(feed) < MaxFeed
    /\ \E item \in LiveItems : feed' = Append(feed, item)
    /\ UNCHANGED <<repoFile, clock, published, runsStarted, run, prev>>

\* The schedule starts the next run, with DRY_RUN off; runs are not counted.
ScheduledRun(r) ==
    /\ run[r].pc = "idle"
    /\ run' = [run EXCEPT ![r] = [IdleRun EXCEPT !.pc = "checkedOut",
                                                 !.headFile = repoFile,
                                                 !.workFile = repoFile]]
    /\ UNCHANGED <<repoFile, clock, published, runsStarted, prev, feed>>

\* Runs one after the other, every fetch and every post succeeding at once.
NextLive ==
    \/ FeedGains
    \/ \E r \in SerialRunners :
        \/ ScheduledRun(r)
        \/ MainStart(r)
        \/ NoNewStories(r, FetchResultsOf(feed))
        \/ AllTooOld(r, FetchResultsOf(feed))
        \/ BeginPost(r, FetchResultsOf(feed))
        \/ PostOk(r)
        \/ CommitState(r)

\* The schedule keeps starting runs and every run goes on to its end.
SpecLive == InitLive /\ [][NextLive]_vars /\ WF_vars(NextLive)

\* ------------------------------------------------------ overlapping runs
\* The workflow has no concurrency group: a scheduled run and a dispatched
\* one can be in progress together, each with its own checkout, against the
\* same feed and the same Bluesky account.
InitOverlap ==
    /\ repoFile = File("ok", 0)
    /\ clock = 0
    /\ published = [i \in Ids |-> 0]
    /\ runsStarted = 0
    /\ run = [r \in Runners |-> IdleRun]
    /\ prev = NoPrev
    /\ feed \in UNION {[1..n -> LiveItems] : n \in 0..MaxFeed}

NextOverlap ==
    \E r \in Runners :
        \/ Checkout(r)
        \/ MainStart(r)
        \/ RetryLater(r)
        \/ RetriesExhausted(r)
        \/ NoNewStories(r, FetchResultsOf(feed))
        \/ AllTooOld(r, FetchResultsOf(feed))
        \/ DryRun(r, FetchResultsOf(feed))
        \/ BeginPost(r, FetchResultsOf(feed))
        \/ PostOk(r)
        \/ CommitState(r)
        \/ JobFails(r)

SpecOverlap == InitOverlap /\ [][NextOverlap]_vars

\* ------------------------------------------------ vocabulary of the claims
\* The run of runner r has got the feed: selection has been made or has thrown.
HasFetched(r) ==
    /\ run[r].pc \in {"posting", "exited"}
    /\ run[r].failedAt \notin {"load", "fetch"}

\* The cursor the run loaded, and the candidates it fetched.
Cursor(r) == run[r].loaded.lastStoryId

Candidates(r) == {run[r].stories[i] : i \in 1..Len(run[r].stories)}

Novel(r) == {s \in Candidates(r) : run[r].loaded.kind = "ok" /\ s.id > Cursor(r)}

Fresh(s, t) == s.publishedAt # NaN /\ t - s.publishedAt <= maxAgeMs

Stale(s, t) == s.publishedAt # NaN /\ t - s.publishedAt > maxAgeMs

NovelFresh(r) == {s \in Novel(r) : Fresh(s, run[r].now)}

IdsOf(stories) == {s.id : s \in stories}

Smallest(ns) == CHOOSE n \in ns : \A m \in ns : n <= m

Largest(ns) == CHOOSE n \in ns : \A m \in ns : n >= m

\* The file is as it was checked out, in the checkout and in the repository.
Untouched(r) ==
    /\ run[r].saves = 0
    /\ run[r].workFile = run[r].headFile
    /\ repoFile = run[r].headFile

\* ------------------------------------------------------------------ claims
\* C1: across serialized runs no item id is successfully published more than
\* once: an id that has been published is never selected by a later run.
C1_PostedAtMostOnce ==
    /\ \A i \in Ids : published[i] <= 1
    /\ \A r \in Runners :
         run[r].storyToPost # NoStory =>
            published[run[r].storyToPost.id] =
               IF run[r].storyToPost.id \in run[r].posted THEN 1 ELSE 0

\* A later run meets, among its candidates, an id an earlier run published.
C1_Witness ==
    \E r \in Runners : \E s \in Candidates(r) :
        /\ HasFetched(r)
        /\ published[s.id] = 1
        /\ s.id \notin run[r].posted
        /\ Fresh(s, run[r].now)

\* C2: the persisted lastStoryId never decreases: every saveState writes a
\* value at least the one the run loaded, and every commit to the repository
\* holds a value at least the one committed before.
C2_CursorMonotonic ==
    [][/\ \A r \in Runners :
            run'[r].saves > run[r].saves =>
               /\ run'[r].workFile.kind = "ok"
               /\ run'[r].workFile.lastStoryId >= run[r].loaded.lastStoryId
       /\ repoFile' # repoFile =>
            /\ repoFile'.kind = "ok"
            /\ repoFile'.lastStoryId >= loadState(repoFile).lastStoryId]_vars

\* A run that loaded an already advanced cursor has saved a further one, and
\* it is committed.
C2_Witness ==
    \E r \in Runners :
        /\ prev.decision \in {"AdvanceOnly", "PostAndAdvance"}
        /\ run[r].loaded.lastStoryId >= 1
        /\ run[r].saves = 1
        /\ run[r].workFile.lastStoryId > run[r].loaded.lastStoryId

C4_OldestFirst ==
    \A r \in Runners :
        /\ run[r].decision = "PostAndAdvance" => NovelFresh(r) # {}
        /\ (HasFetched(r) /\ run[r].failedAt # "filter" /\ NovelFresh(r) # {}) =>
              /\ run[r].decision = "PostAndAdvance"
              /\ run[r].storyToPost.id = Smallest(IdsOf(NovelFresh(r)))
              /\ run[r].saves = 1 =>
                    run[r].workFile = File("ok", Smallest(IdsOf(NovelFresh(r))))

\* The feed listed the larger id first, both stories novel and fresh; the
\* smaller id was posted and is the saved cursor.
C4_Witness ==
    \E r \in Runners :
        /\ Len(feed) = 2
        /\ feed[1].id > feed[2].id
        /\ feed[2].id >= 1
        /\ IdsOf(NovelFresh(r)) = {feed[1].id, feed[2].id}
        /\ run[r].posted = {feed[2].id}
        /\ run[r].saves = 1
        /\ run[r].workFile = File("ok", feed[2].id)

\* C5: when there are novel candidates and every one of them is too old, the
\* run publishes nothing and saves the largest novel id as the cursor: it is
\* neither a no-op nor a post.
C5_BacklogSkip ==
    \A r \in Runners :
        (/\ HasFetched(r)
         /\ Novel(r) # {}
         /\ \A s \in Novel(r) : Stale(s, run[r].now)) =>
            /\ run[r].decision = "AdvanceOnly"
            /\ run[r].pc = "exited"
            /\ run[r].exitCode = 0
            /\ run[r].postCalls = 0
            /\ run[r].posted = {}
            /\ run[r].storyToPost = NoStory
            /\ run[r].saves = 1
            /\ run[r].workFile = File("ok", Largest(IdsOf(Novel(r))))

\* Two stale novel stories with distinct ids; the cursor went to the larger.
C5_Witness ==
    \E r \in Runners :
        /\ HasFetched(r)
        /\ Cardinality(IdsOf(Novel(r))) = 2
        /\ \A s \in Novel(r) : Stale(s, run[r].now)
        /\ run[r].workFile.lastStoryId > Smallest(IdsOf(Novel(r)))
        /\ run[r].saves = 1

\* C6: when no candidate has an id above the loaded lastStoryId (an id equal
\* to it included, or no candidate at all) the run is a no-op: nothing is
\* published, saveState is not called, the file and the repository stay as
\* they were, and the next run on the same feed is a no-op again.
C6_NoOp ==
    /\ prev.decision = "NoOp" => repoFile = prev.headFile
    /\ \A r \in Runners :
        /\ (/\ HasFetched(r)
            /\ run[r].loaded.kind = "ok"
            /\ \A s \in Candidates(r) : s.id <= Cursor(r)) =>
               /\ run[r].decision = "NoOp"
               /\ run[r].pc = "exited"
               /\ run[r].exitCode = 0
               /\ run[r].postCalls = 0
               /\ run[r].posted = {}
               /\ Untouched(r)
        /\ (prev.decision = "NoOp" /\ HasFetched(r)) => run[r].decision = "NoOp"

\* A second no-op run in a row, on a feed that holds the story at the cursor.
C6_Witness ==
    \E r \in Runners : \E s \in Candidates(r) :
        /\ prev.decision = "NoOp"
        /\ HasFetched(r)
        /\ run[r].decision = "NoOp"
        /\ run[r].loaded.kind = "ok"
        /\ s.id = Cursor(r)
        /\ Fresh(s, run[r].now)

\* C7: for a story chosen for posting, saveState is called only after
\* postToBluesky has succeeded for that story: until then the file is as
\* checked out, and once saved it holds the id that was published.
C7_SaveAfterPublish ==
    \A r \in Runners :
        run[r].decision = "PostAndAdvance" =>
            IF run[r].posted = {}
            THEN Untouched(r)
            ELSE /\ run[r].saves = 1
                 /\ run[r].posted = {run[r].storyToPost.id}
                 /\ published[run[r].storyToPost.id] >= 1
                 /\ run[r].workFile = File("ok", run[r].storyToPost.id)

\* The post succeeded on its last attempt, and only then was the cursor saved.
C7_Witness ==
    \E r \in Runners :
        /\ run[r].decision = "PostAndAdvance"
        /\ run[r].attempt = maxAttempts
        /\ run[r].posted = {run[r].storyToPost.id}
        /\ run[r].saves = 1

\* C8: when the post fails on every attempt the run aborts with nothing
\* saved, the repository keeps its lastStoryId, and the next run on the same
\* feed, the story still fresh, chooses the same story again.
C8_PublishFailureKeepsCursor ==
    /\ prev.failedAt = "post" => repoFile = prev.headFile
    /\ \A r \in Runners :
        /\ run[r].failedAt = "post" =>
              /\ run[r].pc = "exited"
              /\ run[r].exitCode = 1
              /\ run[r].postCalls = maxAttempts
              /\ run[r].posted = {}
              /\ Untouched(r)
        /\ (/\ prev.failedAt = "post"
            /\ HasFetched(r)
            /\ \E s \in Candidates(r) : s.id = prev.id /\ Fresh(s, run[r].now)) =>
               /\ run[r].decision = "PostAndAdvance"
               /\ run[r].storyToPost.id = prev.id

\* After a run whose post failed for good, the next run has chosen the same
\* story among two novel fresh ones, the clock having moved on.
C8_Witness ==
    \E r \in Runners :
        /\ prev.failedAt = "post"
        /\ run[r].pc = "posting"
        /\ run[r].storyToPost.id = prev.id
        /\ Cardinality(IdsOf(NovelFresh(r))) = 2
        /\ run[r].now > 0

\* C9: when the fetch fails on all 3 attempts the run exits non-zero, nothing
\* is selected or published, and the stored cursor is left unchanged.
C9_FetchExhausted ==
    /\ prev.failedAt = "fetch" => repoFile = prev.headFile
    /\ \A r \in Runners :
        run[r].failedAt = "fetch" =>
            /\ run[r].pc = "exited"
            /\ run[r].exitCode = 1
            /\ run[r].attempt = maxAttempts
            /\ run[r].decision = "none"
            /\ run[r].stories = <<>>
            /\ run[r].storyToPost = NoStory
            /\ run[r].postCalls = 0
            /\ run[r].posted = {}
            /\ Untouched(r)

\* A run that loaded an advanced cursor has given up fetching.
C9_Witness ==
    \E r \in Runners :
        /\ run[r].failedAt = "fetch"
        /\ run[r].loaded.lastStoryId >= 1
        /\ prev.decision \in {"AdvanceOnly", "PostAndAdvance"}

C11_DryRunAdvanceOnlySaves ==
    /\ (prev.dryRun /\ prev.decision = "AdvanceOnly") =>
          /\ repoFile.kind = "ok"
          /\ repoFile.lastStoryId > loadState(prev.headFile).lastStoryId
    /\ \A r \in Runners :
        (/\ run[r].dryRun
         /\ HasFetched(r)
         /\ Novel(r) # {}
         /\ \A s \in Novel(r) : Stale(s, run[r].now)) =>
            /\ run[r].decision = "AdvanceOnly"
            /\ run[r].exitCode = 0
            /\ run[r].postCalls = 0
            /\ run[r].posted = {}
            /\ run[r].saves = 1
            /\ run[r].state.lastStoryId = Largest(IdsOf(Novel(r)))
            /\ run[r].workFile = File("ok", Largest(IdsOf(Novel(r))))

\* A dry run met two stale novel stories above an advanced cursor and saved
\* the larger id.
C11_Witness ==
    \E r \in Runners :
        /\ run[r].dryRun
        /\ run[r].decision = "AdvanceOnly"
        /\ Cursor(r) >= 1
        /\ Cardinality(IdsOf(Novel(r))) = 2
        /\ run[r].saves = 1
        /\ run[r].workFile.lastStoryId = Largest(IdsOf(Novel(r)))

\* C12: whenever last-processed.json is missing, unreadable or malformed
\* (JSON that is not an object with a lastStoryId included), the run loads
\* the cursor {lastStoryId: 0} and does not fail on account of the file.
C12_LoadStateRecovers ==
    \A r \in Runners :
        (run[r].pc \notin {"idle", "checkedOut"} /\ run[r].headFile.kind # "ok") =>
            /\ run[r].loaded = File("ok", 0)
            /\ run[r].failedAt # "load"

\* C13: a run exits with code 0 exactly when main completes (a no-op, an
\* advance past old stories, a post that succeeded, or a dry run), and with a
\* non-zero code exactly when an error reached main's catch: the fetch or the
\* post failed on every attempt, or another exception was thrown inside main.
C13_ExitCode ==
    \A r \in Runners :
        run[r].pc = "exited" =>
            /\ run[r].exitCode \in {0, 1}
            /\ run[r].exitCode = 0 <=> run[r].failedAt = "none"
            /\ run[r].exitCode = 0 <=>
                  \/ run[r].decision \in {"NoOp", "AdvanceOnly"}
                  \/ /\ run[r].decision = "PostAndAdvance"
                     /\ run[r].dryRun \/ run[r].posted = {run[r].storyToPost.id}
            /\ run[r].exitCode # 0 <=>
                  \/ /\ run[r].failedAt \in {"fetch", "post"}
                     /\ run[r].attempt = maxAttempts
                  \/ run[r].failedAt \in {"load", "filter"}

\* After a run that posted and exited 0, a run has exited 1 on an exception
\* that is neither a failed fetch nor a failed post.
C13_Witness ==
    \E r \in Runners :
        /\ prev.decision = "PostAndAdvance"
        /\ prev.failedAt = "none"
        /\ ~prev.dryRun
        /\ run[r].pc = "exited"
        /\ run[r].exitCode = 1
        /\ run[r].failedAt = "filter"

\* Story i is in the feed and within the age limit now.
PresentFresh(i) ==
    \E k \in 1..Len(feed) :
        /\ feed[k].id = i
        /\ clock - feed[k].date_published <= maxAgeMs

\* C14: while runs keep being scheduled and posts succeed, a story that is in
\* the feed, unposted, and either above the stored lastStoryId or there with a
\* story of larger id already posted, is posted eventually unless it leaves
\* the age limit first.
C14_EventuallyPosted ==
    \A i \in Ids :
        (/\ PresentFresh(i)
         /\ published[i] = 0
         /\ \/ i > loadState(repoFile).lastStoryId
            \/ \E j \in Ids : j > i /\ published[j] >= 1)
        ~> (published[i] >= 1 \/ ~PresentFresh(i))

\* The ways to keep one copy of each id of `stories`, as sets of positions,
\* and the list that keeping the positions K leaves.
KeepSets(stories) ==
    {K \in SUBSET (1..Len(stories)) :
        \A k \in 1..Len(stories) :
            Cardinality({j \in K : stories[j].id = stories[k].id}) = 1}

RECURSIVE Keep(_, _, _)
Keep(stories, K, k) ==
    IF k > Len(stories) THEN <<>>
    ELSE (IF k \in K THEN <<stories[k]>> ELSE <<>>) \o Keep(stories, K, k + 1)

\* What the run of runner r did agrees with the selection `sel`.
RunFollows(r, sel) ==
    /\ sel.decision = IF run[r].failedAt = "filter" THEN "throws" ELSE run[r].decision
    /\ sel.id = run[r].storyToPost.id
    /\ run[r].saves = 1 => run[r].workFile.lastStoryId = sel.lastStoryId
    /\ run[r].saves = 0 => run[r].workFile = run[r].headFile

\* The copies of an id agree on whether their date is valid and on whether
\* it is within the age limit at time t.
CopiesAlike(stories, t) ==
    \A a, b \in stories :
        a.id = b.id => /\ Fresh(a, t) <=> Fresh(b, t)
                       /\ Stale(a, t) <=> Stale(b, t)

Age(s, t) == t - s.publishedAt

\* C16: the age filter keeps a story exactly when its age is at most
\* maxAgeMs: a novel story whose age equals the limit is kept and can be
\* chosen, one whose age is above the limit is dropped.
C16_AgeBoundaryInclusive ==
    \A r \in Runners :
        (HasFetched(r) /\ run[r].failedAt # "filter") =>
            /\ run[r].decision = "PostAndAdvance" <=>
                  \E s \in Novel(r) : Age(s, run[r].now) <= maxAgeMs
            /\ run[r].decision = "AdvanceOnly" <=>
                  /\ Novel(r) # {}
                  /\ \A s \in Novel(r) : Age(s, run[r].now) > maxAgeMs
            /\ run[r].decision = "PostAndAdvance" =>
                  /\ Age(run[r].storyToPost, run[r].now) <= maxAgeMs
                  /\ \A s \in Novel(r) :
                        s.id < run[r].storyToPost.id => Age(s, run[r].now) > maxAgeMs

\* A story exactly at the age limit was posted, past a novel story with a
\* smaller id that was older than the limit.
C16_Witness ==
    \E r \in Runners : \E s \in Novel(r) :
        /\ run[r].posted = {run[r].storyToPost.id}
        /\ Age(run[r].storyToPost, run[r].now) = maxAgeMs
        /\ s.id < run[r].storyToPost.id
        /\ Age(s, run[r].now) = maxAgeMs + 1

\* The positions of the feed whose record has a story id and a date.
CompleteRecords ==
    {k \in 1..Len(feed) :
        /\ feed[k].id \notin {UndefinedItemId, NoStoryItemId}
        /\ feed[k].date_published # AbsentDate}

\* C17: a feed record without one of its required fields is skipped: the
\* candidates are the complete records only, and neither the story chosen nor
\* the saved lastStoryId comes from an incomplete record.
C17_IncompleteSkipped ==
    \A r \in Runners :
        HasFetched(r) =>
            /\ Len(run[r].stories) = Cardinality(CompleteRecords)
            /\ run[r].storyToPost # NoStory =>
                  \E k \in CompleteRecords : feed[k].id = run[r].storyToPost.id
            /\ run[r].saves = 1 =>
                  \E k \in CompleteRecords : feed[k].id = run[r].workFile.lastStoryId

\* C18: retryWithBackoff calls the operation at most maxAttempts times, each
\* call after the first following a failure and one sleep; it returns at the
\* first success with no further call; it throws only after maxAttempts
\* failures in a row, the error thrown being that of the last attempt, and it
\* does not sleep after that attempt.
C18_RetryWithBackoff ==
    \A r \in Runners :
        /\ run[r].attempt <= maxAttempts
        /\ run[r].postCalls <= maxAttempts
        /\ run[r].pc \in {"fetching", "posting"} =>
              /\ run[r].sleeps = run[r].attempt - 1
              /\ run[r].lastError = run[r].attempt - 1
        /\ run[r].thrown # 0 <=> run[r].failedAt \in {"fetch", "post"}
        /\ run[r].failedAt \in {"fetch", "post"} =>
              /\ run[r].attempt = maxAttempts
              /\ run[r].thrown = maxAttempts
              /\ run[r].sleeps = maxAttempts - 1
        /\ HasFetched(r) => run[r].sleeps = run[r].attempt - 1
        /\ run[r].posted # {} =>
              /\ run[r].pc = "exited"
              /\ run[r].postCalls = run[r].attempt
              /\ published[run[r].storyToPost.id] = 1

\* After a run that posted, a run has fetched and then failed to post
\* maxAttempts times in a row, with a sleep between the attempts only.
C18_Witness ==
    \E r \in Runners :
        /\ prev.decision = "PostAndAdvance"
        /\ prev.failedAt = "none"
        /\ run[r].failedAt = "post"
        /\ run[r].postCalls = maxAttempts
        /\ run[r].sleeps = maxAttempts - 1
        /\ run[r].thrown = maxAttempts

\* C19: overlapping runs are not kept from posting the same story: a run that
\* has chosen a story can always go on to post it, whatever another run has
\* loaded, posted, saved or committed in the meantime.
C19_NothingPreventsPost ==
    \A r \in Runners :
        run[r].pc = "posting" => ENABLED PostOk(r)

\* Two runs loaded the same cursor before either saved, and both have posted
\* the same story.
C19_Witness ==
    \E i \in Ids :
        /\ published[i] = 2
        /\ run[1].posted = {i}
        /\ run[2].posted = {i}
        /\ run[1].loaded = run[2].loaded
        /\ run[1].saves = 1
        /\ run[2].saves = 1

\* C20: a run never moves the cursor past a story it could have posted: of
\* the run's candidates, each one above the loaded lastStoryId and at or below
\* the saved one is the story posted in the run or was too old in it.
C20_NoFreshStoryPassedOver ==
    \A r \in Runners :
        run[r].saves = 1 =>
            /\ run[r].workFile.lastStoryId > Cursor(r)
            /\ \A s \in Candidates(r) :
                  (s.id > Cursor(r) /\ s.id <= run[r].workFile.lastStoryId) =>
                      \/ s.id \in run[r].posted
                      \/ Stale(s, run[r].now)

\* Above an advanced cursor, a run posted a story and saved its id, passing
\* over a novel story with a smaller id that was too old.
C20_Witness ==
    \E r \in Runners : \E s \in Novel(r) :
        /\ Cursor(r) >= 1
        /\ run[r].saves = 1
        /\ run[r].posted = {run[r].workFile.lastStoryId}
        /\ s.id < run[r].workFile.lastStoryId
        /\ Stale(s, run[r].now)

\* The outcomes of the post that agree with what happened in the run of
\* runner r: it succeeded, it failed on every attempt, or it was not tried.
PostOutcomes(r) ==
    IF run[r].posted # {} THEN {TRUE}
    ELSE IF run[r].failedAt = "post" THEN {FALSE}
    ELSE BOOLEAN

\* C21: with dry-run off, a finished run of bot.ts and the README variant on
\* the same loaded cursor, candidates, time and post outcome take the same
\* branch, attempt to post the same id, exit alike and leave the same
\* lastStoryId in the file.
C21_VariantsAgree ==
    \A r \in Runners :
        (run[r].pc = "exited" /\ ~run[r].dryRun /\ HasFetched(r)) =>
            \A ok \in PostOutcomes(r) :
                LET other == readmeMain(run[r].stories, run[r].loaded, run[r].now, ok)
                IN  /\ other.decision = run[r].decision
                    /\ other.id = run[r].storyToPost.id
                    /\ other.exitCode = run[r].exitCode
                    /\ other.saved <=> run[r].saves = 1
                    /\ other.saved => run[r].workFile = File("ok", other.lastStoryId)

=============================================================================
